---- MODULE Spec2Model ----
(***************************************************************************)
(* Model of the DPE data tools:                                            *)
(*   tools/fetch_dpe_data.py  fetch_page, fetch_dpe_data, clean_data       *)
(*   tools/setup_data.py      main (filter, leakage guard, stratified      *)
(*                            70/15/15 split, export)                      *)
(***************************************************************************)
EXTENDS Integers, Sequences, FiniteSets, TLC

(***************************************************************************)
(* Bounds of the model.                                                    *)
(***************************************************************************)
\* number of records the data service may hold
MaxN == 5
\* largest target passed to fetch_dpe_data (--n)
MaxTarget == 5
\* largest page cap the data service may enforce on its side
MaxCap == 3
\* PAGE_SIZE of fetch_dpe_data.py (10_000 there), scaled so that targets
\* above and below one page both occur
PAGE_SIZE == 2

Min(a, b) == IF a <= b THEN a ELSE b

Range(s) == {s[i] : i \in 1..Len(s)}

(***************************************************************************)
(* Python values.  A cursor is a str or None; the token the service builds *)
(* from the sort key k of the last record of a page is the string of k.    *)
(***************************************************************************)
None == "None"
Blank == ""
NoParam == "<absent>"

\* numero_dpe of the last row of a page, as the string the service puts in
\* the `after` parameter of its "next" URL
Token(k) == ToString(k)

\* the position a cursor string stands for; no `after` parameter starts at
\* the beginning of the sorted record set
KeyOf(tok) == IF \E k \in 1..(MaxN + 1) : Token(k) = tok
              THEN CHOOSE k \in 1..(MaxN + 1) : Token(k) = tok
              ELSE 0

\* Python truthiness of a value of type str | None
Truthy(s) == s # None /\ s # Blank

VARIABLES
    \* ---- the data service (environment of fetch_dpe_data) ----
    total,      \* N: records matching the filter, sort keys 1..N
    cap,        \* page cap the service enforces
    \* ---- fetch_dpe_data ----
    n_rows,     \* the target
    all_rows,   \* accumulated rows (their sort keys)
    after,      \* the driver's cursor
    request,    \* query parameters of the request in flight
    result,     \* what fetch_dpe_data returned, if it returned
    pc,         \* position of the run
    \* ---- history of the run ----
    nreq,       \* page requests issued so far
    last_next,  \* next_after returned by the latest fetch_page call
    served,     \* concatenation of the pages the service has returned
    nonempty,   \* number of requests that returned a non-empty page
    exhausted,  \* a page came back empty or without next cursor
    nsleep,     \* pauses taken so far
    failed_at   \* nreq when a request failed

fetch_vars == <<total, cap, n_rows, all_rows, after, request, result, pc,
                nreq, last_next, served, nonempty, exhausted, nsleep,
                failed_at>>

VARIABLES
    \* ---- clean_data ----
    cin,        \* the DataFrame passed to clean_data
    cdf,        \* the local df of clean_data
    cpc         \* position in clean_data

clean_vars == <<cin, cdf, cpc>>

VARIABLES
    \* ---- setup_data.main ----
    sdf,             \* df: the rows, each with its index label
    columns,         \* df.columns
    feature_cols,    \* the feature column list
    min_n_required,  \* the estimated minimum N for the joint key
    granularity,     \* "joint", "label", or "none" before the decision
    strat,           \* the stratification key of each index label
    part,            \* index labels of the eight tables of the two splits
    files,           \* the partition files written so far
    spc,             \* position in main
    csv              \* the rows and columns of the CSV as read

setup_vars == <<sdf, columns, feature_cols, min_n_required, granularity,
                strat, part, files, spc, csv>>

NoPart == [X_train |-> {}, y_train |-> {}, X_rem |-> {}, y_rem |-> {},
           X_test |-> {}, y_test |-> {}, X_priv |-> {}, y_priv |-> {}]

\* setup_data.main is not running
SetupIdle ==
    /\ sdf = <<>>
    /\ columns = <<>>
    /\ feature_cols = <<>>
    /\ min_n_required = 0
    /\ granularity = "none"
    /\ strat = <<>>
    /\ part = NoPart
    /\ files = <<>>
    /\ spc = "idle"
    /\ csv = [rows |-> <<>>, columns |-> <<>>]

NoRequest == [size |-> 0, after |-> NoParam]
NoResult == [returned |-> FALSE, rows |-> <<>>]

(***************************************************************************)
(* fetch_page: the request it builds.                                      *)
(***************************************************************************)
\* params["size"] = min(size, PAGE_SIZE); params["after"] only `if after:`
Params(cursor, size) ==
    [size |-> Min(size, PAGE_SIZE),
     after |-> IF Truthy(cursor) THEN cursor ELSE NoParam]

(***************************************************************************)
(* fetch_page: next_after out of the response's "next" URL.  A URL is      *)
(* modelled by its query, a sequence of <<name, value>> pairs; the JSON    *)
(* field may be missing (data.get("next") is None).                        *)
(***************************************************************************)
NoNext == [present |-> FALSE, query |-> <<>>]
Url(q) == [present |-> TRUE, query |-> q]

\* a parser that reads another parameter name: no cursor is ever found
ParseNext_WrongName(next) ==
    IF ~next.present THEN None
    ELSE LET vals == SelectSeq(next.query,
                         LAMBDA p : p[1] = "next" /\ p[2] # Blank)
         IN IF vals = <<>> THEN None ELSE vals[1][2]

\* urllib.parse.parse_qs(...).get("after", [None])[0]: blank values are
\* dropped by parse_qs, the first remaining value of the name is taken
ParseNext(next) ==
    IF ~next.present THEN None
    ELSE LET vals == SelectSeq(next.query,
                         LAMBDA p : p[1] = "after" /\ p[2] # Blank)
         IN IF vals = <<>> THEN None ELSE vals[1][2]

(***************************************************************************)
(* fetch_dpe_data: the loop.                                               *)
(***************************************************************************)
\* while len(all_rows) < n_rows
LoopGuard(acc, target) == Len(acc) < target

\* a driver that always asks for a full page
RequestSize_FullPage(acc, target) == PAGE_SIZE

\* size = min(remaining, PAGE_SIZE)
RequestSize(acc, target) == Min(target - Len(acc), PAGE_SIZE)

\* a driver that does not rebind its cursor
CursorKept_Stale(old, next_after) == old

\* the cursor handed to the next fetch_page: `rows, after = fetch_page(...)`
CursorKept(old, next_after) == next_after

\* a driver that tests the cursor before it extends: the last page is lost
Accumulate_CursorFirst(acc, rows, next_after) ==
    IF rows = <<>> \/ ~Truthy(next_after) THEN acc ELSE acc \o rows

\* all_rows after a page: `if not rows: break`, then all_rows.extend(rows),
\* and only then `if not after: break`
Accumulate(acc, rows, next_after) == IF rows = <<>> THEN acc ELSE acc \o rows

\* a driver that pauses after every page that carried a cursor, the one
\* that met the target included
AfterPage_AlwaysSleep(rows, next_after, acc, target) ==
    IF rows = <<>> THEN "return"
    ELSE IF ~Truthy(next_after) THEN "return"
    ELSE "sleep"

\* where control goes after a page has been handled
AfterPage(rows, next_after, acc, target) ==
    IF rows = <<>> THEN "return"
    ELSE IF ~Truthy(next_after) THEN "return"
    ELSE IF Len(acc) < target THEN "sleep"
    ELSE "loop"

\* loop test true: build the request and send it (requests.get)
Iterate ==
    /\ pc = "loop"
    /\ LoopGuard(all_rows, n_rows)
    /\ request' = Params(after, RequestSize(all_rows, n_rows))
    /\ nreq' = nreq + 1
    /\ pc' = "fetch"
    /\ UNCHANGED <<clean_vars, setup_vars>>
    /\ UNCHANGED <<total, cap, n_rows, all_rows, after, result, last_next,
                   served, nonempty, exhausted, nsleep, failed_at>>

\* loop test false: leave the loop
ExitLoop ==
    /\ pc = "loop"
    /\ ~LoopGuard(all_rows, n_rows)
    /\ pc' = "return"
    /\ UNCHANGED <<clean_vars, setup_vars>>
    /\ UNCHANGED <<total, cap, n_rows, all_rows, after, request, result,
                   nreq, last_next, served, nonempty, exhausted, nsleep,
                   failed_at>>

\* a 2xx response: fetch_page parses it and returns (rows, next_after); the
\* driver rebinds after, tests rows, extends, tests after, decides to sleep
PageReturned(rows, next) ==
    LET next_after == ParseNext(next)
        acc == Accumulate(all_rows, rows, next_after)
    IN /\ after' = CursorKept(after, next_after)
       /\ all_rows' = acc
       /\ pc' = AfterPage(rows, next_after, acc, n_rows)
       /\ last_next' = next_after
       /\ served' = served \o rows
       /\ nonempty' = IF rows = <<>> THEN nonempty ELSE nonempty + 1
       /\ exhausted' = (exhausted \/ rows = <<>> \/ ~Truthy(next_after))
       /\ request' = NoRequest
       /\ UNCHANGED <<clean_vars, setup_vars>>
       /\ UNCHANGED <<total, cap, n_rows, result, nreq, nsleep, failed_at>>

\* a driver that catches the failure and goes round the loop again
FailureOutcome_Retry == "loop"

\* what happens when a request fails: resp.raise_for_status() (or the
\* timeout inside requests.get) raises; nothing catches it
FailureOutcome == "error"

\* HTTP error or timeout on the request in flight
RequestFails ==
    /\ pc = "fetch"
    /\ pc' = FailureOutcome
    /\ failed_at' = nreq
    /\ request' = NoRequest
    /\ UNCHANGED <<clean_vars, setup_vars>>
    /\ UNCHANGED <<total, cap, n_rows, all_rows, after, result, nreq,
                   last_next, served, nonempty, exhausted, nsleep>>

\* time.sleep(1), then back to the loop test
Sleep ==
    /\ pc = "sleep"
    /\ nsleep' = nsleep + 1
    /\ pc' = "loop"
    /\ UNCHANGED <<clean_vars, setup_vars>>
    /\ UNCHANGED <<total, cap, n_rows, all_rows, after, request, result,
                   nreq, last_next, served, nonempty, exhausted, failed_at>>

\* df = pd.DataFrame(all_rows) ... return df
Returned(acc) == [returned |-> TRUE, rows |-> acc]

Return ==
    /\ pc = "return"
    /\ result' = Returned(all_rows)
    /\ pc' = "done"
    /\ UNCHANGED <<clean_vars, setup_vars>>
    /\ UNCHANGED <<total, cap, n_rows, all_rows, after, request, nreq,
                   last_next, served, nonempty, exhausted, nsleep, failed_at>>

(***************************************************************************)
(* The data service.  It holds the records 1..total sorted by numero_dpe,  *)
(* resumes after the position the `after` parameter names, and never       *)
(* returns more than `size` rows.                                          *)
(***************************************************************************)
Page(start, k) == [i \in 1..k |-> start + i]

\* the shapes of "next" a response can carry after a page ending at `last`
NextShapes(last) ==
    {NoNext, Url(<<>>), Url(<<<<"after", Blank>>>>)}
    \cup (IF last >= 1
          THEN {Url(<<<<"after", Token(last)>>>>),
                Url(<<<<"size", "1">>, <<"after", Token(last)>>>>)}
          ELSE {})

\* any response that respects `size`: up to `size` of the records after the
\* cursor, with any "next"
Responses(req) ==
    LET start == KeyOf(req.after)
        avail == IF total > start THEN total - start ELSE 0
    IN UNION {{[rows |-> Page(start, k), next |-> nx] :
                   nx \in NextShapes(start + k)} :
              k \in 0..Min(req.size, avail)}

\* the responses of a service that fills its pages: min(size, cap, left)
\* rows, and a next cursor while records remain (after the last record the
\* "next" may or may not be there)
ContractResponses(req) ==
    LET start == KeyOf(req.after)
        avail == IF total > start THEN total - start ELSE 0
        k == Min(Min(req.size, cap), avail)
        last == start + k
    IN {[rows |-> Page(start, k), next |-> nx] :
            nx \in IF k > 0 /\ last < total
                   THEN {Url(<<<<"after", Token(last)>>>>)}
                   ELSE IF k > 0
                   THEN {NoNext, Url(<<<<"after", Token(last)>>>>)}
                   ELSE {NoNext}}

ServiceReplies ==
    /\ pc = "fetch"
    /\ \E resp \in Responses(request) : PageReturned(resp.rows, resp.next)

ContractReplies ==
    /\ pc = "fetch"
    /\ \E resp \in ContractResponses(request) :
           PageReturned(resp.rows, resp.next)

FetchInit ==
    /\ total \in 0..MaxN
    /\ cap \in 1..MaxCap
    /\ n_rows \in 0..MaxTarget
    /\ all_rows = <<>>
    /\ after = None
    /\ request = NoRequest
    /\ result = NoResult
    /\ pc = "loop"
    /\ nreq = 0
    /\ last_next = None
    /\ served = <<>>
    /\ nonempty = 0
    /\ exhausted = FALSE
    /\ nsleep = 0
    /\ failed_at = 0

\* fetch_dpe_data is not running
FetchIdle ==
    /\ total = 0
    /\ cap = 1
    /\ n_rows = 0
    /\ all_rows = <<>>
    /\ after = None
    /\ request = NoRequest
    /\ result = NoResult
    /\ pc = "idle"
    /\ nreq = 0
    /\ last_next = None
    /\ served = <<>>
    /\ nonempty = 0
    /\ exhausted = FALSE
    /\ nsleep = 0
    /\ failed_at = 0

vars == <<fetch_vars, clean_vars, setup_vars>>

CleanIdle == cin = <<>> /\ cdf = <<>> /\ cpc = "idle"

Init == FetchInit /\ CleanIdle /\ SetupIdle

Driver == Iterate \/ ExitLoop \/ Sleep \/ Return

\* fetch_dpe_data against a service that respects `size` and may fail
Next == Driver \/ ServiceReplies \/ RequestFails

Spec == Init /\ [][Next]_vars

\* fetch_dpe_data against a service that fills its pages and never fails
ContractNext == Driver \/ ContractReplies

ContractSpec == Init /\ [][ContractNext]_vars

\* the program runs on, and every request gets its answer or its failure
FairSpec == Init /\ [][Next]_vars /\ WF_vars(Next)

(***************************************************************************)
(* Claims about fetch_dpe_data.                                            *)
(***************************************************************************)
FirstRecords(k) == [i \in 1..k |-> i]

\* C1: against a service that holds `total` sorted records, fills its pages
\* up to min(size, cap) and gives a next cursor while records remain,
\* fetch_dpe_data(n_rows) returns the first min(n_rows, total) records, each
\* once, in ascending sort-key order.
C1_PaginationCorrect ==
    pc = "done" => /\ result.returned
                   /\ result.rows = FirstRecords(Min(n_rows, total))

\* a run of several pages that ends because the service ran out
C1_Witness ==
    /\ pc = "done"
    /\ nreq >= 3
    /\ total < n_rows
    /\ Len(result.rows) = total

\* C2: the first request carries no `after` parameter (the cursor is None),
\* every later one carries the next_after the preceding fetch_page call
\* returned, and the size asked for is min(n_rows - accumulated, PAGE_SIZE).
C2_CursorContinuation ==
    pc = "fetch" =>
        /\ request.size = Min(n_rows - Len(all_rows), PAGE_SIZE)
        /\ (nreq = 1 => after = None /\ request.after = NoParam)
        /\ (nreq > 1 => request.after = last_next)

\* a third request, for less than a full page
C2_Witness ==
    /\ pc = "fetch"
    /\ nreq = 3
    /\ request.size < PAGE_SIZE
    /\ request.after = Token(3)

\* C3: whatever the service answers within the size asked for, the
\* accumulated count never exceeds n_rows, nor does the returned count.
C3_AtMostTarget ==
    /\ Len(all_rows) <= n_rows
    /\ (result.returned => Len(result.rows) <= n_rows)

\* a run that returned exactly the target after a short page
C3_Witness ==
    /\ pc = "done"
    /\ Len(result.rows) = n_rows
    /\ nonempty >= 3
    /\ n_rows <= PAGE_SIZE + PAGE_SIZE

\* C8: once a page request has failed the run is in the error outcome, no
\* further request has been issued (none for the failed page either) and
\* nothing has been returned, whatever had been accumulated.
C8_FailureAborts ==
    failed_at > 0 => /\ pc = "error"
                     /\ nreq = failed_at
                     /\ ~result.returned
                     /\ ~ENABLED Next

\* a failure on the third page, two pages already accumulated
C8_Witness ==
    /\ pc = "error"
    /\ failed_at = 3
    /\ Len(all_rows) >= 2

\* C10 (state part): after an empty page or a page without next cursor no
\* request is in flight or to come; a normal return gives every row the
\* service returned; at most n_rows requests returned a non-empty page.
ExhaustionIsTerminal ==
    /\ (exhausted => pc \in {"return", "done"} /\ request = NoRequest)
    /\ (pc = "done" => result = Returned(served))
    /\ nonempty <= n_rows

\* C10: exhaustion ends the run normally with all rows accumulated so far,
\* no further request is issued, and every run terminates.
C10_Exhaustion ==
    /\ []ExhaustionIsTerminal
    /\ [][exhausted => nreq' = nreq]_vars
    /\ <>(pc \in {"done", "error"})

\* a run ended early by a non-empty page that carried no next cursor
C10_Witness ==
    /\ pc = "done"
    /\ exhausted
    /\ nonempty = nreq
    /\ nreq >= 2
    /\ Len(result.rows) < n_rows

\* C11 (state part): the pauses taken are one fewer than the requests
\* issued while a request is in flight, while the driver is about to pause
\* and once the run has ended (none when no request was made); the driver
\* pauses only after a non-empty page with a next cursor that left the target
\* unmet; back at the loop test either the pause has been taken and another
\* request follows, or the target is met and no pause was taken.
PauseCount ==
    /\ (pc \in {"fetch", "sleep"} => nreq = nsleep + 1)
    /\ (pc = "sleep" => ~exhausted /\ Len(all_rows) < n_rows)
    /\ (pc = "loop" =>
           \/ nreq = nsleep /\ (nreq > 0 => LoopGuard(all_rows, n_rows))
           \/ nreq = nsleep + 1 /\ ~exhausted /\ ~LoopGuard(all_rows, n_rows))
    /\ (pc \in {"return", "done", "error"} =>
           nsleep = IF nreq = 0 THEN 0 ELSE nreq - 1)

\* C11: exactly one pause separates any two consecutive page requests and
\* none follows the last one: a request is issued only when every earlier
\* request has had its pause, a pause is taken only after a non-empty page
\* with a next cursor that left the target unmet, and it is followed by
\* another request.
C11_PauseBetweenRequests ==
    /\ []PauseCount
    /\ [][nreq' # nreq => nreq' = nreq + 1 /\ nsleep = nreq]_vars
    /\ [][nsleep' # nsleep =>
             /\ nsleep' = nsleep + 1
             /\ nreq = nsleep + 1
             /\ ~exhausted
             /\ LoopGuard(all_rows', n_rows)
             /\ pc' = "loop"]_vars

\* a run of three requests and two pauses that met the target on its third
\* page, which carried a next cursor: no pause followed it
C11_Witness ==
    /\ pc = "done"
    /\ nreq = 3
    /\ nsleep = 2
    /\ ~exhausted
    /\ Len(result.rows) = n_rows

(***************************************************************************)
(* clean_data.  A cell is NaN or a number; a row keeps the position it had *)
(* in the input (id) next to its index label (idx).  df[mask] keeps the    *)
(* rows whose mask is True, with their order and index labels.             *)
(***************************************************************************)
\* rows of the DataFrame passed to clean_data
MaxCleanRows == 2

\* the plausibility ceiling of conso_5_usages_par_m2_ep
Ceiling == 1000

NaN == <<>>
Num(v) == <<v>>

\* Series.notna()
NotNull(c) == c # NaN

\* Series > 0: False on NaN
Positive(c) == c # NaN /\ c[1] > 0

\* a ceiling test that also drops the value 1000 itself
AtMostCeiling_Strict(c) == c # NaN /\ c[1] < Ceiling

\* Series <= 1000: False on NaN
AtMostCeiling(c) == c # NaN /\ c[1] <= Ceiling

\* df.reset_index(drop=True)
ResetIndexOf(df) == [i \in 1..Len(df) |-> [df[i] EXCEPT !.idx = i - 1]]

EnergyValues == {NaN, Num(0), Num(1)}
SurfaceValues == {NaN, Num(0), Num(1)}
PerM2Values == {NaN, Num(0), Num(Ceiling), Num(Ceiling + 1)}

CleanCells == [ep : EnergyValues, surface : SurfaceValues, par_m2 : PerM2Values]

\* the DataFrame of n rows with the cells f and a RangeIndex
Frame(f, n) ==
    [i \in 1..n |-> [idx |-> i - 1, id |-> i, ep |-> f[i].ep,
                     surface |-> f[i].surface, par_m2 |-> f[i].par_m2]]

CleanInit ==
    /\ FetchIdle
    /\ SetupIdle
    /\ \E n \in 0..MaxCleanRows : \E f \in [1..n -> CleanCells] :
          cin = Frame(f, n)
    /\ cdf = cin
    /\ cpc = "dropna"

\* df = df.dropna(subset=["conso_5_usages_ep", "surface_habitable_logement"])
DropNa ==
    /\ cpc = "dropna"
    /\ cdf' = SelectSeq(cdf, LAMBDA r : NotNull(r.ep) /\ NotNull(r.surface))
    /\ cpc' = "energy"
    /\ UNCHANGED <<cin, fetch_vars, setup_vars>>

\* df = df[df["conso_5_usages_ep"] > 0]
KeepPositiveEnergy ==
    /\ cpc = "energy"
    /\ cdf' = SelectSeq(cdf, LAMBDA r : Positive(r.ep))
    /\ cpc' = "surface"
    /\ UNCHANGED <<cin, fetch_vars, setup_vars>>

\* df = df[df["surface_habitable_logement"] > 0]
KeepPositiveSurface ==
    /\ cpc = "surface"
    /\ cdf' = SelectSeq(cdf, LAMBDA r : Positive(r.surface))
    /\ cpc' = "ceiling"
    /\ UNCHANGED <<cin, fetch_vars, setup_vars>>

\* df = df[df["conso_5_usages_par_m2_ep"] <= 1000]
KeepPlausible ==
    /\ cpc = "ceiling"
    /\ cdf' = SelectSeq(cdf, LAMBDA r : AtMostCeiling(r.par_m2))
    /\ cpc' = "reset"
    /\ UNCHANGED <<cin, fetch_vars, setup_vars>>

\* return df.reset_index(drop=True)
ResetIndex ==
    /\ cpc = "reset"
    /\ cdf' = ResetIndexOf(cdf)
    /\ cpc' = "done"
    /\ UNCHANGED <<cin, fetch_vars, setup_vars>>

CleanNext ==
    DropNa \/ KeepPositiveEnergy \/ KeepPositiveSurface \/ KeepPlausible
        \/ ResetIndex

CleanSpec == CleanInit /\ [][CleanNext]_vars

\* the rows the claim keeps: energy and size not null, energy > 0,
\* per-unit-area quantity > 0 and <= 1000
C6_ClaimedKept(r) ==
    /\ r.ep # NaN /\ r.surface # NaN
    /\ r.ep[1] > 0
    /\ r.par_m2 # NaN /\ r.par_m2[1] > 0 /\ r.par_m2[1] <= 1000

\* the rows the code keeps: energy and size not null, energy > 0, size > 0,
\* per-unit-area quantity not null and <= 1000
C6_CodeKept(r) ==
    /\ r.ep # NaN /\ r.surface # NaN
    /\ r.ep[1] > 0
    /\ r.surface[1] > 0
    /\ r.par_m2 # NaN /\ r.par_m2[1] <= 1000

\* C6 as claimed: the output of clean_data is exactly the input rows with
\* non-null energy and size, energy > 0, per-unit-area quantity > 0 and
\* <= 1000, in their original order, indexed 0..k-1.
C6_AsClaimed ==
    cpc = "done" =>
        LET kept == SelectSeq(cin, C6_ClaimedKept)
        IN /\ Len(cdf) = Len(kept)
           /\ \A i \in 1..Len(cdf) : cdf[i] = [kept[i] EXCEPT !.idx = i - 1]

\* C6 (amended): the output of clean_data is exactly the input rows with
\* non-null energy and size, energy > 0, size > 0 and a non-null
\* per-unit-area quantity <= 1000, in their original order, indexed 0..k-1.
C6_CleanFilters ==
    cpc = "done" =>
        LET kept == SelectSeq(cin, C6_CodeKept)
        IN /\ Len(cdf) = Len(kept)
           /\ \A i \in 1..Len(cdf) : cdf[i] = [kept[i] EXCEPT !.idx = i - 1]

\* a kept row at the ceiling that moved up after a row before it was dropped
C6_Witness ==
    /\ cpc = "done"
    /\ Len(cin) = 2
    /\ Len(cdf) = 1
    /\ cdf[1].id = 2
    /\ cdf[1].idx = 0
    /\ cdf[1].par_m2 = Num(1000)

(***************************************************************************)
(* setup_data.main.  A row carries its index label (idx), its department   *)
(* code as the string left by astype(str).str.strip(), its target label    *)
(* and its region code (cells: NaN or a value).  The tables of a split are *)
(* modelled by their sets of index labels: train_test_split shuffles, and  *)
(* nothing in main reads the order of the rows inside a partition.         *)
(***************************************************************************)
\* rows of the CSV read by main
MaxRows == 5
\* rows of the CSV when the column set is what varies
MaxLeakRows == 1
\* rows of the CSV when the label and region frequencies are what varies
MaxStratRows == 9

TARGET == "etiquette_dpe"

META_COLS ==
    <<"numero_dpe", "date_derniere_modification_dpe", "date_etablissement_dpe",
      "modele_dpe", "version_dpe", "methode_application_dpe", "identifiant_ban",
      "score_ban", "statut_geocodage">>

LEAKY_COLS ==
    <<"conso_5_usages_ep", "conso_5_usages_par_m2_ep", "conso_chauffage_ep",
      "conso_ecs_ep", "conso_refroidissement_ep", "conso_eclairage_ep",
      "conso_auxiliaires_ep", "conso_5 usages_ef", "conso_5 usages_par_m2_ef",
      "conso_chauffage_ef", "conso_ecs_ef", "conso_refroidissement_ef",
      "conso_eclairage_ef", "conso_auxiliaires_ef", "emission_ges_5_usages",
      "emission_ges_5_usages par_m2", "emission_ges_chauffage",
      "emission_ges_ecs", "emission_ges_refroidissement",
      "emission_ges_eclairage", "emission_ges_auxiliaires", "etiquette_ges",
      "conso_5 usages_ef_energie_n1", "conso_chauffage_ef_energie_n1",
      "conso_ecs_ef_energie_n1", "emission_ges_5_usages_energie_n1",
      "emission_ges_chauffage_energie_n1", "emission_ges_ecs_energie_n1",
      "cout_total_5_usages_energie_n1", "cout_chauffage_energie_n1",
      "cout_ecs_energie_n1", "cout_total_5_usages", "cout_chauffage",
      "cout_ecs", "cout_refroidissement", "cout_eclairage",
      "cout_auxiliaires">>

DOM_TOM == {"971", "972", "973", "974", "988"}

\* the six files, in the order main writes them
EXPORTS ==
    <<"input_data/train/train_features.csv",
      "input_data/train/train_labels.csv",
      "input_data/test/test_features.csv",
      "reference_data/test_labels.csv",
      "input_data/private_test/private_test_features.csv",
      "reference_data/private_test_labels.csv">>

\* first split: test_size=0.30; second split: test_size=0.50 (in percent)
TestPct1 == 30
TestPct2 == 50

\* the 4 of 4 / (p_label * p_region): members wanted in the smallest stratum
MinMembers == 4

RECURSIVE SumOver(_, _)
SumOver(f, S) ==
    IF S = {} THEN 0
    ELSE LET c == CHOOSE x \in S : TRUE IN f[c] + SumOver(f, S \ {c})

CeilDiv(num, den) == (num + den - 1) \div den

\* df.index
Ids(df) == {df[i].idx : i \in 1..Len(df)}

RowAt(df, i) == CHOOSE r \in Range(df) : r.idx = i

\* ~df["code_departement_ban"].isin(DOM_TOM)
IsDomTom(r) == r.dept \in DOM_TOM

\* a drop set that forgets the target column
ColsToDrop_NoTarget == Range(META_COLS \o LEAKY_COLS)

\* cols_to_drop = set(META_COLS + LEAKY_COLS + [TARGET])
ColsToDrop == Range(META_COLS \o LEAKY_COLS \o <<TARGET>>)

\* feature_cols = [c for c in df.columns if c not in cols_to_drop]
FeatureCols(cols) == SelectSeq(cols, LAMBDA c : c \notin ColsToDrop)

\* Series.value_counts(): the count of each non-null value of a column
LabelValues(df) == {df[i].label[1] : i \in {j \in 1..Len(df) : df[j].label # NaN}}
RegionValues(df) == {df[i].region[1] : i \in {j \in 1..Len(df) : df[j].region # NaN}}
LabelCount(df, v) == Cardinality({i \in 1..Len(df) : df[i].label = Num(v)})
RegionCount(df, v) == Cardinality({i \in 1..Len(df) : df[i].region = Num(v)})

\* value_counts(normalize=True).min() as a fraction <<count, non-null rows>>;
\* the minimum of an empty Series is NaN
MinLabelFreq(df) ==
    IF LabelValues(df) = {} THEN NaN
    ELSE LET v == CHOOSE x \in LabelValues(df) :
                      \A z \in LabelValues(df) : LabelCount(df, x) <= LabelCount(df, z)
         IN <<LabelCount(df, v),
              Cardinality({i \in 1..Len(df) : df[i].label # NaN})>>

MinRegionFreq(df) ==
    IF RegionValues(df) = {} THEN NaN
    ELSE LET v == CHOOSE x \in RegionValues(df) :
                      \A z \in RegionValues(df) : RegionCount(df, x) <= RegionCount(df, z)
         IN <<RegionCount(df, v),
              Cardinality({i \in 1..Len(df) : df[i].region # NaN})>>

\* round(num / den): to the nearest integer; at an exact half the float
\* quotient may fall on either side before round() ties to even
RoundOutcomes(num, den) ==
    LET q == num \div den
        r == num % den
    IN IF 2 * r < den THEN {q}
       ELSE IF 2 * r > den THEN {q + 1}
       ELSE {q, q + 1}

\* the values round(4 / (p_label * p_region)) can take, p = <<count, rows>>
MinNOutcomes(pl, pr) ==
    RoundOutcomes(MinMembers * pl[2] * pr[2], pl[1] * pr[1])

\* df["code_region_ban"].fillna(-1).astype(float).astype(int).astype(str)
RegionStr(c) == IF c = NaN THEN ToString(-1) ELSE ToString(c[1])

\* strat = y[TARGET].astype(str) + "_" + region
JointStrat(df) ==
    [i \in Ids(df) |->
        RowAt(df, i).label[1] \o "_" \o RegionStr(RowAt(df, i).region)]

\* strat = y[TARGET]
LabelStrat(df) == [i \in Ids(df) |-> RowAt(df, i).label[1]]

(***************************************************************************)
(* sklearn.model_selection.train_test_split(..., test_size, stratify):     *)
(* n_test = ceil(test_size * n), n_train = n - n_test; ValueError when     *)
(* n_train = 0, when a class has fewer than 2 members, or when n_train or  *)
(* n_test is smaller than the number of classes.  Each class gives the     *)
(* train side its share of n_train (rounded down, the rows left over going *)
(* to the classes with the largest remainders), the rest to the test side. *)
(***************************************************************************)
Classes(ids, key) == {key[i] : i \in ids}
Members(ids, key, c) == {i \in ids : key[i] = c}
NTest(n, pct) == CeilDiv(pct * n, 100)

CanSplit(ids, key, pct) ==
    LET n == Cardinality(ids)
        ntest == NTest(n, pct)
        ntrain == n - ntest
        cls == Classes(ids, key)
    IN /\ ntrain > 0
       /\ \A c \in cls : Cardinality(Members(ids, key, c)) >= 2
       /\ ntrain >= Cardinality(cls)
       /\ ntest >= Cardinality(cls)

\* _approximate_mode(class_counts, n_train): the train rows of each class
TrainShares(ids, key, pct) ==
    LET n == Cardinality(ids)
        ntrain == n - NTest(n, pct)
        cls == Classes(ids, key)
        cnt == [c \in cls |-> Cardinality(Members(ids, key, c))]
        floored == [c \in cls |-> (cnt[c] * ntrain) \div n]
        rest == [c \in cls |-> (cnt[c] * ntrain) % n]
        need == ntrain - SumOver(floored, cls)
    IN {[c \in cls |-> floored[c] + (IF c \in up THEN 1 ELSE 0)] :
            up \in {u \in SUBSET cls :
                       /\ Cardinality(u) = need
                       /\ \A c \in u : \A d \in cls \ u : rest[c] >= rest[d]}}

\* the index labels the first returned table can hold
TrainSets(ids, key, pct) ==
    UNION {{t \in SUBSET ids :
               \A c \in Classes(ids, key) :
                   Cardinality(t \cap Members(ids, key, c)) = share[c]} :
           share \in TrainShares(ids, key, pct)}

\* a second split that is handed the whole dataset again
SecondSplitInput_Whole(df, p) == Ids(df)

\* the second split divides X_rem, y_rem
SecondSplitInput(df, p) == p.X_rem

\* strat_rem = strat.loc[X_rem.index]
StratRem(key, ids) == [i \in ids |-> key[i]]

\* an error of the split routine that main swallows before exporting
SplitErrorOutcome_Swallow == "export"

\* the ValueError of train_test_split is not caught in main
SplitErrorOutcome == "error"

(***************************************************************************)
(* The steps of main.                                                      *)
(***************************************************************************)
\* df = df[~df["code_departement_ban"].isin(DOM_TOM)]
DomTomFilter ==
    /\ spc = "domtom"
    /\ "code_departement_ban" \in Range(columns)
    /\ sdf' = SelectSeq(sdf, LAMBDA r : ~IsDomTom(r))
    /\ spc' = "dropna"
    /\ UNCHANGED <<columns, feature_cols, min_n_required, granularity,
                   strat, part, files, csv>>
    /\ UNCHANGED <<fetch_vars, clean_vars>>

\* df["code_departement_ban"]: KeyError
NoDepartmentColumn ==
    /\ spc = "domtom"
    /\ "code_departement_ban" \notin Range(columns)
    /\ spc' = "error"
    /\ UNCHANGED <<sdf, columns, feature_cols, min_n_required, granularity,
                   strat, part, files, csv>>
    /\ UNCHANGED <<fetch_vars, clean_vars>>

\* df = df.dropna(subset=[TARGET])
DropNaTarget ==
    /\ spc = "dropna"
    /\ TARGET \in Range(columns)
    /\ sdf' = SelectSeq(sdf, LAMBDA r : NotNull(r.label))
    /\ spc' = "features"
    /\ UNCHANGED <<columns, feature_cols, min_n_required, granularity,
                   strat, part, files, csv>>
    /\ UNCHANGED <<fetch_vars, clean_vars>>

\* dropna(subset=[TARGET]): KeyError
NoTargetColumn ==
    /\ spc = "dropna"
    /\ TARGET \notin Range(columns)
    /\ spc' = "error"
    /\ UNCHANGED <<sdf, columns, feature_cols, min_n_required, granularity,
                   strat, part, files, csv>>
    /\ UNCHANGED <<fetch_vars, clean_vars>>

\* feature_cols = [...]; X = df[feature_cols].copy(); y = df[[TARGET]].copy()
SelectFeatures ==
    /\ spc = "features"
    /\ feature_cols' = FeatureCols(columns)
    /\ spc' = "decide"
    /\ UNCHANGED <<sdf, columns, min_n_required, granularity, strat, part,
                   files, csv>>
    /\ UNCHANGED <<fetch_vars, clean_vars>>

\* region = df["code_region_ban"]...: KeyError
NoRegionColumn ==
    /\ spc = "decide"
    /\ "code_region_ban" \notin Range(columns)
    /\ spc' = "error"
    /\ UNCHANGED <<sdf, columns, feature_cols, min_n_required, granularity,
                   strat, part, files, csv>>
    /\ UNCHANGED <<fetch_vars, clean_vars>>

\* round(nan): ValueError, when no row is left or no region is known
EstimateFails ==
    /\ spc = "decide"
    /\ "code_region_ban" \in Range(columns)
    /\ (MinLabelFreq(sdf) = NaN \/ MinRegionFreq(sdf) = NaN)
    /\ spc' = "error"
    /\ UNCHANGED <<sdf, columns, feature_cols, min_n_required, granularity,
                   strat, part, files, csv>>
    /\ UNCHANGED <<fetch_vars, clean_vars>>

\* if len(df) >= min_n_required: strat = label + "_" + region
UseJointKey ==
    /\ spc = "decide"
    /\ "code_region_ban" \in Range(columns)
    /\ MinLabelFreq(sdf) # NaN /\ MinRegionFreq(sdf) # NaN
    /\ \E m \in MinNOutcomes(MinLabelFreq(sdf), MinRegionFreq(sdf)) :
          /\ Len(sdf) >= m
          /\ min_n_required' = m
    /\ granularity' = "joint"
    /\ strat' = JointStrat(sdf)
    /\ spc' = "split1"
    /\ UNCHANGED <<sdf, columns, feature_cols, part, files, csv>>
    /\ UNCHANGED <<fetch_vars, clean_vars>>

\* else: strat = y[TARGET]
FallBackToLabel ==
    /\ spc = "decide"
    /\ "code_region_ban" \in Range(columns)
    /\ MinLabelFreq(sdf) # NaN /\ MinRegionFreq(sdf) # NaN
    /\ \E m \in MinNOutcomes(MinLabelFreq(sdf), MinRegionFreq(sdf)) :
          /\ ~(Len(sdf) >= m)
          /\ min_n_required' = m
    /\ granularity' = "label"
    /\ strat' = LabelStrat(sdf)
    /\ spc' = "split1"
    /\ UNCHANGED <<sdf, columns, feature_cols, part, files, csv>>
    /\ UNCHANGED <<fetch_vars, clean_vars>>

\* X_train, X_rem, y_train, y_rem = train_test_split(X, y, test_size=0.30, ...)
Split1 ==
    /\ spc = "split1"
    /\ CanSplit(Ids(sdf), strat, TestPct1)
    /\ \E t \in TrainSets(Ids(sdf), strat, TestPct1) :
          part' = [part EXCEPT !.X_train = t, !.y_train = t,
                               !.X_rem = Ids(sdf) \ t, !.y_rem = Ids(sdf) \ t]
    /\ spc' = "split2"
    /\ UNCHANGED <<sdf, columns, feature_cols, min_n_required, granularity,
                   strat, files, csv>>
    /\ UNCHANGED <<fetch_vars, clean_vars>>

\* the first train_test_split raises
Split1Fails ==
    /\ spc = "split1"
    /\ ~CanSplit(Ids(sdf), strat, TestPct1)
    /\ spc' = SplitErrorOutcome
    /\ UNCHANGED <<sdf, columns, feature_cols, min_n_required, granularity,
                   strat, part, files, csv>>
    /\ UNCHANGED <<fetch_vars, clean_vars>>

\* X_test, X_priv, y_test, y_priv = train_test_split(X_rem, y_rem,
\*     test_size=0.50, ..., stratify=strat_rem)
Split2 ==
    LET rem == SecondSplitInput(sdf, part)
        strat_rem == StratRem(strat, rem)
    IN /\ spc = "split2"
       /\ CanSplit(rem, strat_rem, TestPct2)
       /\ \E t \in TrainSets(rem, strat_rem, TestPct2) :
             part' = [part EXCEPT !.X_test = t, !.y_test = t,
                                  !.X_priv = rem \ t, !.y_priv = rem \ t]
       /\ spc' = "export"
       /\ UNCHANGED <<sdf, columns, feature_cols, min_n_required,
                      granularity, strat, files, csv>>
       /\ UNCHANGED <<fetch_vars, clean_vars>>

\* the second train_test_split raises
Split2Fails ==
    LET rem == SecondSplitInput(sdf, part)
        strat_rem == StratRem(strat, rem)
    IN /\ spc = "split2"
       /\ ~CanSplit(rem, strat_rem, TestPct2)
       /\ spc' = SplitErrorOutcome
       /\ UNCHANGED <<sdf, columns, feature_cols, min_n_required,
                      granularity, strat, part, files, csv>>
       /\ UNCHANGED <<fetch_vars, clean_vars>>

\* the table the k-th make_csv call writes
ExportTable(k, p, fcols) ==
    [path |-> EXPORTS[k],
     rows |-> CASE k = 1 -> p.X_train [] k = 2 -> p.y_train
                [] k = 3 -> p.X_test [] k = 4 -> p.y_test
                [] k = 5 -> p.X_priv [] OTHER -> p.y_priv,
     cols |-> IF k \in {1, 3, 5} THEN fcols ELSE <<TARGET>>]

\* one make_csv call; after the sixth, main is done
MakeCsv ==
    /\ spc = "export"
    /\ files' = Append(files, ExportTable(Len(files) + 1, part, feature_cols))
    /\ spc' = IF Len(files') = Len(EXPORTS) THEN "done" ELSE "export"
    /\ UNCHANGED <<sdf, columns, feature_cols, min_n_required, granularity,
                   strat, part, csv>>
    /\ UNCHANGED <<fetch_vars, clean_vars>>

(***************************************************************************)
(* The CSV files main is run on.                                           *)
(***************************************************************************)
Row(dept, label, region) == [dept |-> dept, label |-> label, region |-> region]

\* an overseas row, a row without label, and rows of two labels, of two
\* regions and without region
RowKinds ==
    {Row("971", Num("A"), Num(1)), Row("75", NaN, Num(1)),
     Row("75", Num("A"), Num(1)), Row("75", Num("A"), NaN),
     Row("75", Num("B"), Num(1)), Row("75", Num("A"), Num(2))}

\* pd.read_csv: a RangeIndex over the rows
Indexed(f, n) ==
    [i \in 1..n |-> [idx |-> i - 1, dept |-> f[i].dept, label |-> f[i].label,
                     region |-> f[i].region]]


StdColumns ==
    <<"numero_dpe", "etiquette_dpe", "type_batiment", "code_departement_ban",
      "code_region_ban", "conso_5_usages_ep">>

\* main has read `rows` with the columns `cols`
Loaded(rows, cols) ==
    /\ csv = [rows |-> rows, columns |-> cols]
    /\ sdf = rows
    /\ columns = cols
    /\ feature_cols = <<>>
    /\ min_n_required = 0
    /\ granularity = "none"
    /\ strat = <<>>
    /\ part = NoPart
    /\ files = <<>>
    /\ spc = "domtom"

SetupInit ==
    /\ FetchIdle
    /\ CleanIdle
    /\ \E n \in 0..MaxRows : \E f \in [1..n -> RowKinds] :
          Loaded(Indexed(f, n), StdColumns)

SetupNext ==
    \/ DomTomFilter \/ DropNaTarget \/ SelectFeatures
    \/ EstimateFails \/ UseJointKey \/ FallBackToLabel
    \/ Split1 \/ Split1Fails \/ Split2 \/ Split2Fails
    \/ MakeCsv

SetupSpec == SetupInit /\ [][SetupNext]_vars

(***************************************************************************)
(* main on CSV files whose column set varies (up to the feature list).     *)
(***************************************************************************)
LeakUniverse ==
    <<"numero_dpe", "etiquette_dpe", "type_batiment", "code_departement_ban",
      "score_ban", "code_region_ban", "conso_5_usages_ep", "etiquette_ges">>

Reverse(s) == [i \in 1..Len(s) |-> s[Len(s) + 1 - i]]

\* the columns of a CSV: any of the universe, in its order or the reverse
ColumnLists ==
    LET picks == {SelectSeq(LeakUniverse, LAMBDA c : c \in names) :
                     names \in SUBSET Range(LeakUniverse)}
    IN picks \cup {Reverse(p) : p \in picks}

LeakInit ==
    /\ FetchIdle
    /\ CleanIdle
    /\ \E n \in 0..MaxLeakRows : \E f \in [1..n -> RowKinds] :
          \E cols \in ColumnLists : Loaded(Indexed(f, n), cols)

LeakNext ==
    \/ DomTomFilter \/ NoDepartmentColumn
    \/ DropNaTarget \/ NoTargetColumn
    \/ SelectFeatures

LeakSpec == LeakInit /\ [][LeakNext]_vars

(***************************************************************************)
(* main on CSV files whose label and region frequencies vary (up to the    *)
(* choice of the stratification key).                                      *)
(***************************************************************************)
\* n rows of metropolitan France: the first nA of label A, the others B; the
\* first c1 of region 1, the next c2 of region 2, the others without region
CountedRows(n, nA, c1, c2) ==
    [i \in 1..n |->
        [idx |-> i - 1, dept |-> "75",
         label |-> IF i <= nA THEN Num("A") ELSE Num("B"),
         region |-> IF i <= c1 THEN Num(1)
                    ELSE IF i <= c1 + c2 THEN Num(2) ELSE NaN]]

StratInit ==
    /\ FetchIdle
    /\ CleanIdle
    /\ \E n \in 0..MaxStratRows : \E nA \in 0..n :
          \E c1 \in 0..n : \E c2 \in 0..(n - c1) :
             \E cols \in {StdColumns,
                          SelectSeq(StdColumns, LAMBDA c : c # "code_region_ban")} :
                Loaded(CountedRows(n, nA, c1, c2), cols)

StratNext ==
    \/ DomTomFilter \/ DropNaTarget \/ SelectFeatures
    \/ NoRegionColumn \/ EstimateFails \/ UseJointKey \/ FallBackToLabel

StratSpec == StratInit /\ [][StratNext]_vars

(***************************************************************************)
(* Claims about setup_data.main.                                           *)
(***************************************************************************)
\* index labels of the CSV rows that pass the DOM-TOM filter and have a label
C4_Remaining ==
    {csv.rows[i].idx :
        i \in {j \in 1..Len(csv.rows) :
                  csv.rows[j].dept \notin DOM_TOM /\ csv.rows[j].label # NaN}}

\* C4: when both splits have succeeded, train, test and private_test are
\* pairwise disjoint, their union is the index set left by the DOM-TOM
\* filter and the null-target drop, and in each partition the feature table
\* and the label table have the same index set.
C4_PartitionCover ==
    spc \in {"export", "done"} =>
        /\ part.X_train \cap part.X_test = {}
        /\ part.X_train \cap part.X_priv = {}
        /\ part.X_test \cap part.X_priv = {}
        /\ part.X_train \cup part.X_test \cup part.X_priv = C4_Remaining
        /\ part.y_train = part.X_train
        /\ part.y_test = part.X_test
        /\ part.y_priv = part.X_priv

\* a finished run on a CSV whose first row was filtered out
C4_Witness ==
    /\ spc = "done"
    /\ Len(csv.rows) = 5
    /\ 0 \notin C4_Remaining
    /\ Cardinality(part.X_train) = 2
    /\ Cardinality(part.X_test) = 1
    /\ Cardinality(part.X_priv) = 1

\* C5 as claimed: the joint key is used if and only if the number of rows
\* is at least ceil(4 / (p_label_min * p_region_min)); below it the
\* label-only key is used.
C5_AsClaimed ==
    granularity # "none" =>
        LET pl == MinLabelFreq(sdf)
            pr == MinRegionFreq(sdf)
            min_n == CeilDiv(4 * pl[2] * pr[2], pl[1] * pr[1])
        IN (granularity = "joint") <=> (Len(sdf) >= min_n)

C7_Listed(c) ==
    c \in Range(META_COLS) \/ c \in Range(LEAKY_COLS) \/ c = TARGET

\* C7: the feature list holds no metadata, leaky or target column, holds
\* every other column of the input, in input order, and main fails before
\* the feature list only when the department or the target column is absent
\* (an absent metadata or leaky column is no error).
C7_LeakageGuard ==
    /\ spc = "decide" =>
          /\ \A i \in 1..Len(feature_cols) : ~C7_Listed(feature_cols[i])
          /\ \A i \in 1..Len(csv.columns) :
                ~C7_Listed(csv.columns[i]) =>
                    \E j \in 1..Len(feature_cols) :
                        feature_cols[j] = csv.columns[i]
          /\ feature_cols =
                SelectSeq(csv.columns, LAMBDA c : ~C7_Listed(c))
    /\ spc = "error" =>
          \/ "code_departement_ban" \notin Range(csv.columns)
          \/ TARGET \notin Range(csv.columns)

\* a feature list in reversed input order, a metadata column absent, a
\* leaky column present and dropped
C7_Witness ==
    /\ spc = "decide"
    /\ Len(feature_cols) = 3
    /\ feature_cols[1] = "code_region_ban"
    /\ "numero_dpe" \notin Range(csv.columns)
    /\ "etiquette_ges" \in Range(csv.columns)

\* some stratum of `key` has a single member among `ids`
C9_SingleMember(ids, key) ==
    \E i \in ids : \A j \in ids : key[j] = key[i] => j = i

\* C9 (state part): files exist only after both splits have succeeded, and
\* none exists in the error outcome.
NoExportWithoutSplits ==
    /\ files # <<>> =>
          /\ spc \in {"export", "done"}
          /\ part.X_train # {} /\ part.X_test # {} /\ part.X_priv # {}
    /\ spc = "error" => files = <<>>

\* C9: when a stratum of the chosen key has a single member among the rows
\* of Split 1, or among the remainder rows of Split 2, the step taken is the
\* error of the split routine: the key and the rows stay as they are, no
\* file is written, and nothing follows the error.
C9_SplitFailsLoudly ==
    /\ []NoExportWithoutSplits
    /\ [][\/ spc = "split1" /\ C9_SingleMember(Ids(sdf), strat)
          \/ spc = "split2" /\ C9_SingleMember(part.X_rem, strat)
          => /\ spc' = "error"
             /\ files' = <<>>
             /\ granularity' = granularity
             /\ strat' = strat
             /\ sdf' = sdf
             /\ part' = part]_vars
    /\ [][spc # "error"]_vars

\* the second split has failed under the joint key
C9_Witness ==
    /\ spc = "error"
    /\ granularity = "joint"
    /\ part.X_rem # {}
    /\ C9_SingleMember(part.X_rem, strat)
    /\ files = <<>>

====
